---------------------------- MODULE Spec2Model ----------------------------
(***************************************************************************)
(* State-machine model of hudei_hudei_bot.py: the SQLite tables users and  *)
(* stories, the per-member conversation state kept by ConversationHandler, *)
(* the process configuration (ADMIN_IDS, CHANNEL_ID), the content pools    *)
(* POSTS, and one action per handler / scheduled job.                      *)
(*                                                                         *)
(* A message text is a sequence of tokens; the token " " is whitespace.   *)
(* The update handled last, the messages its handler tried to send and     *)
(* whether it raised are kept in  last, outbox  and  raised.               *)
(***************************************************************************)
EXTENDS Integers, Sequences, FiniteSets, TLC

VARIABLES ADMIN_IDS,   \* list of administrator ids (line 54)
          CHANNEL_ID,  \* channel identifier or None (line 55)
          posts_txt,   \* the file posts.txt read by load_posts (line 145)
          POSTS,       \* content pools, set by load_posts (line 139)
          users,       \* table users: user_id -> row
          stories,     \* table stories: id -> row (ids are 1..Len)
          conv,        \* ConversationHandler state per member
          last,        \* the update handled last
          outbox,      \* send attempts made by the handler of that update
          raised       \* TRUE when that handler ended with an exception

vars == <<ADMIN_IDS, CHANNEL_ID, posts_txt, POSTS, users, stories, conv, last, outbox, raised>>

(* ------------------------------ bounds -------------------------------- *)
\* stories are accepted until the table holds MaxStories rows
MaxStories == 2
\* posts.txt holds at most MaxBlocks header-introduced blocks
MaxBlocks == 2

(* ----------------------- constants of the program --------------------- *)
None == "None"
MENU == "MENU"
STORY == "STORY"
BTN_SHARE == <<"Share story">>
BTN_RULES == <<"Rules">>
BTN_UNSUB == <<"Unsubscribe">>
WELCOME == <<"WELCOME">>
RULES == <<"RULES">>
MAIN_KB == <<BTN_SHARE, BTN_RULES, BTN_UNSUB>>
ReplyKeyboardRemove == <<>>

(* ------------------------------ inputs -------------------------------- *)
\* the Telegram users who talk to the bot
UserIds == {1, 2}
\* non-command texts a member can send
Texts == { BTN_SHARE, <<" ">> \o BTN_SHARE, BTN_RULES, BTN_UNSUB, <<"hi">> }
\* (username, first_name) pairs Telegram can report for a member
Profiles == { [username |-> "ann", first_name |-> "Ann"],
              [username |-> None, first_name |-> "Anna"] }
\* the chats send_message can raise for
FailSets == SUBSET UserIds
\* /broadcast command texts
BroadcastTexts == { <<"/broadcast">>, <<"/broadcast", " ", "hello">> }
\* values of the environment variable ADMIN_IDS after parsing
AdminLists == { <<>>, <<1>>, <<1, 2>> }
\* values of the environment variable CHANNEL_ID
ChannelIds == { None, "@hudeihudei" }
\* day_index_by_date(): days since the first of the month
DayIndexes == 0..30
\* the days the scheduled jobs are observed on
JobDays == {0, 1, 30}
\* the profile of the members in the runs where no member is renamed
OneProfile == { [username |-> "ann", first_name |-> "Ann"] }
\* the text members send in the runs that follow a story through
\* moderation: in MENU it opens the intake, in AWAITING_STORY it is the story
ModerationTexts == { BTN_SHARE }
ModerationAdminLists == { <<1>>, <<1, 2>> }

(* ------------------------------ helpers ------------------------------- *)
\* whitespace tokens: a blank inside a line, an empty line
Whitespace == {" ", ""}

\* str.strip() on a token sequence
RECURSIVE LStrip(_)
LStrip(s) == IF s # <<>> /\ Head(s) \in Whitespace THEN LStrip(Tail(s)) ELSE s

RECURSIVE RStrip(_)
RStrip(s) ==
    IF s # <<>> /\ s[Len(s)] \in Whitespace
    THEN RStrip(SubSeq(s, 1, Len(s) - 1))
    ELSE s

\* a variant that trims nothing
StripNothing(s) == s

Strip(s) == RStrip(LStrip(s))

\* str.partition(" ")[2]: what follows the first whitespace, "" when none
RECURSIVE PartitionTail(_)
PartitionTail(s) ==
    IF s = <<>> THEN <<>>
    ELSE IF Head(s) = " " THEN Tail(s) ELSE PartitionTail(Tail(s))

\* Python truthiness of an Optional[str]
Truthy(x) == x # None /\ x # ""

\* int(sid): raises ValueError unless the string is a decimal number
IsDecimal(s) == \E n \in 0..9 : ToString(n) = s

ParseInt(s) == CHOOSE n \in 0..9 : ToString(n) = s

\* a variant of the membership test that lets everyone pass
InListAlways(x, l) == TRUE

\* x in list
InList(x, l) == \E i \in 1..Len(l) : l[i] = x

\* ids in rowid order
RECURSIVE SortedSeq(_)
SortedSeq(S) ==
    IF S = {} THEN <<>>
    ELSE LET m == CHOOSE x \in S : \A y \in S : x <= y
         IN  <<m>> \o SortedSeq(S \ {m})

(* ------------------------------ DB helpers ---------------------------- *)
\* a variant that updates a stored row and inserts none
upsert_user_update_only(tbl, user_id, username, first_name) ==
    IF user_id \in DOMAIN tbl
    THEN [tbl EXCEPT ![user_id].username = username,
                     ![user_id].first_name = first_name]
    ELSE tbl

upsert_user(tbl, user_id, username, first_name) ==
    IF user_id \in DOMAIN tbl
    THEN [tbl EXCEPT ![user_id].username = username,
                     ![user_id].first_name = first_name]
    ELSE tbl @@ (user_id :> [username |-> username, first_name |-> first_name,
                             subscribed |-> 1])

\* a variant without the WHERE clause of line 118
set_subscribed_everyone(tbl, user_id, flag) ==
    [u \in DOMAIN tbl |-> [tbl[u] EXCEPT !.subscribed = flag]]

set_subscribed(tbl, user_id, flag) ==
    [u \in DOMAIN tbl |->
        IF u = user_id THEN [tbl[u] EXCEPT !.subscribed = flag] ELSE tbl[u]]

get_subscribed_users(tbl) ==
    SortedSeq({u \in DOMAIN tbl : tbl[u].subscribed = 1})

\* a variant that trims the text before storing it
add_story_trimmed(tbl, user_id, content) ==
    Append(tbl, [user_id |-> user_id, content |-> Strip(content), status |-> "pending"])

add_story(tbl, user_id, content) ==
    Append(tbl, [user_id |-> user_id, content |-> content, status |-> "pending"])

lastrowid(tbl) == Len(tbl)

\* a variant without the WHERE clause of line 135
set_story_status_everywhere(tbl, story_id, status) ==
    [i \in DOMAIN tbl |-> [tbl[i] EXCEPT !.status = status]]

\* a variant that deletes the row of a rejected story
set_story_status_deleting(tbl, story_id, status) ==
    IF status = "rejected"
    THEN [i \in DOMAIN tbl \ {story_id} |-> tbl[i]]
    ELSE [i \in DOMAIN tbl |->
             IF i = story_id THEN [tbl[i] EXCEPT !.status = status] ELSE tbl[i]]

\* a variant that withdraws a decision made a second time
set_story_status_toggling(tbl, story_id, status) ==
    [i \in DOMAIN tbl |->
        IF i = story_id
        THEN [tbl[i] EXCEPT !.status = IF @ = status THEN "pending" ELSE status]
        ELSE tbl[i]]

set_story_status(tbl, story_id, status) ==
    [i \in DOMAIN tbl |->
        IF i = story_id THEN [tbl[i] EXCEPT !.status = status] ELSE tbl[i]]

(* ------------------------------ POSTS parser -------------------------- *)
\* the capture group of the header pattern (line 147) on one line of the
\* file; None when the line is no header
HeaderTag(line) ==
    CASE line = "# Day 1 Morning" -> "Morning"
      [] line = "# Day 2 Morning" -> "Morning"
      [] line = "# Day 1 Day"     -> "Day"
      [] line = "# Day 2 Day"     -> "Day"
      [] line = "# Day 1 Evening" -> "Evening"
      [] line = "# Day 2 Evening" -> "Evening"
      [] OTHER -> None

\* str.lower() / str.title() on the tags
Lower(tag) ==
    CASE tag = "Morning" -> "morning"
      [] tag = "Day"     -> "day"
      [] tag = "Evening" -> "evening"
      [] OTHER -> tag

Title(k) ==
    CASE k = "morning" -> "Morning"
      [] k = "day"     -> "Day"
      [] k = "evening" -> "Evening"
      [] OTHER -> k

PoolKeys == {"morning", "day", "evening"}

\* re.split with one capture group: <<text, tag, text, tag, text, ...>>,
\* a text being the lines between two headers
RECURSIVE re_split(_, _)
re_split(lines, cur) ==
    IF lines = <<>> THEN << cur >>
    ELSE IF HeaderTag(Head(lines)) # None
         THEN << cur, HeaderTag(Head(lines)) >> \o re_split(Tail(lines), <<>>)
         ELSE re_split(Tail(lines), Append(cur, Head(lines)))

\* a variant of the loop that skips a text its pool already holds
RECURSIVE CollectPostsOnce(_, _, _)
CollectPostsOnce(blocks, i, posts) ==
    IF i > Len(blocks) THEN posts
    ELSE LET tag  == Lower(blocks[i])
             text == Strip(blocks[i + 1])
         IN  CollectPostsOnce(blocks, i + 2,
                 IF /\ tag \in DOMAIN posts /\ text # <<>>
                    /\ \A j \in DOMAIN posts[tag] : posts[tag][j] # text
                 THEN [posts EXCEPT ![tag] = Append(@, text)]
                 ELSE posts)

\* the loop of lines 148-152 from index i on
RECURSIVE CollectPosts(_, _, _)
CollectPosts(blocks, i, posts) ==
    IF i > Len(blocks) THEN posts
    ELSE LET tag  == Lower(blocks[i])
             text == Strip(blocks[i + 1])
         IN  CollectPosts(blocks, i + 2,
                 IF tag \in DOMAIN posts /\ text # <<>>
                 THEN [posts EXCEPT ![tag] = Append(@, text)]
                 ELSE posts)

Placeholder(k) == << Title(k), " post placeholder." >>

\* a variant without the placeholder fallback of lines 155-157
load_posts_no_fallback(file) ==
    IF ~file.exists THEN [k \in PoolKeys |-> <<>>]
    ELSE CollectPosts(re_split(file.lines, <<>>), 2, [k \in PoolKeys |-> <<>>])

\* load_posts: open() fails when the file does not exist, else the file is
\* read as its lines
load_posts(file) ==
    LET empty  == [k \in PoolKeys |-> <<>>]
        parsed == IF ~file.exists THEN empty
                  ELSE CollectPosts(re_split(file.lines, <<>>), 2, empty)
    IN  [k \in PoolKeys |->
            IF parsed[k] = <<>> THEN << Placeholder(k) >> ELSE parsed[k]]

\* contents of posts.txt
Files == { [exists |-> FALSE, lines |-> <<>>],
           [exists |-> TRUE,
            lines  |-> << "# Day 1 Morning", "m1", "# Day 1 Evening", "",
                          "# Day 2 Morning", "m2" >>] }

\* a header line of posts.txt for a day and a period tag
HeaderLine(day, tag) ==
    CASE day = 1 /\ tag = "Morning" -> "# Day 1 Morning"
      [] day = 2 /\ tag = "Morning" -> "# Day 2 Morning"
      [] day = 1 /\ tag = "Day"     -> "# Day 1 Day"
      [] day = 2 /\ tag = "Day"     -> "# Day 2 Day"
      [] day = 1 /\ tag = "Evening" -> "# Day 1 Evening"
      [] day = 2 /\ tag = "Evening" -> "# Day 2 Evening"

\* the blocks a content plan is written from: a day, a period tag and the
\* lines of the body (none for a block left empty)
PostBlocks ==
    [day : {1, 2}, tag : {"Morning", "Day", "Evening"},
     body : { <<>>, <<"a">>, <<"b">> }]

RECURSIVE SeqsUpTo(_, _)
SeqsUpTo(S, n) ==
    IF n = 0 THEN { <<>> }
    ELSE LET shorter == SeqsUpTo(S, n - 1)
         IN  shorter \cup { Append(q, x) : q \in shorter, x \in S }

\* the lines of a file written block by block: the header, the body, an
\* empty line
RECURSIVE FileLines(_)
FileLines(blocks) ==
    IF blocks = <<>> THEN <<>>
    ELSE << HeaderLine(Head(blocks).day, Head(blocks).tag) >>
         \o Head(blocks).body \o << "" >> \o FileLines(Tail(blocks))

\* contents of posts.txt for the loader: no file, text without any header,
\* headers the pattern does not match, and every plan of up to MaxBlocks
\* blocks
PlanFiles ==
    { [exists |-> FALSE, lines |-> <<>>],
      [exists |-> TRUE, lines |-> << "notes", "" >>],
      [exists |-> TRUE, lines |-> << "# day 1 morning", "a", "# Day 1 Night", "b" >>] }
    \cup { [exists |-> TRUE, lines |-> FileLines(q)] : q \in SeqsUpTo(PostBlocks, MaxBlocks) }

(* ------------------------------ transport ----------------------------- *)
\* one attempt to send or edit a message; ok is FALSE when the call raised
Msg(via, to, chat_id, text, markup, ok) ==
    [via |-> via, to |-> to, chat_id |-> chat_id, text |-> text,
     markup |-> markup, ok |-> ok]

\* update.message.reply_text: a reply in the chat the update came from.  No
\* handler guards it; it is taken to be delivered, the failures modelled are
\* those of bot.send_message to the recipients of a fan-out
reply_text(user_id, text, markup) ==
    Msg("reply_text", "member", user_id, text, markup, TRUE)

\* a variant whose loop ends at the first send that fails
RECURSIVE SendEachUntilFailure(_, _, _, _)
SendEachUntilFailure(ids, text, markup, failing) ==
    IF ids = <<>> THEN <<>>
    ELSE IF Head(ids) \in failing
    THEN << Msg("send_message", "member", Head(ids), text, markup, FALSE) >>
    ELSE << Msg("send_message", "member", Head(ids), text, markup, TRUE) >>
         \o SendEachUntilFailure(Tail(ids), text, markup, failing)

\* bot.send_message to each id of a list in turn, every exception swallowed
RECURSIVE SendEach(_, _, _, _)
SendEach(ids, text, markup, failing) ==
    IF ids = <<>> THEN <<>>
    ELSE << Msg("send_message", "member", Head(ids), text, markup,
                Head(ids) \notin failing) >>
         \o SendEach(Tail(ids), text, markup, failing)

target_chat_id_fallback(channel) == channel

\* a variant that stops after the channel attempt, delivered or not
post_text_channel_only(text, channel, tbl, failing, channelFails) ==
    IF Truthy(target_chat_id_fallback(channel))
    THEN << Msg("send_message", "channel", channel, text, None, ~channelFails) >>
    ELSE SendEach(get_subscribed_users(tbl), text, None, failing)

\* post_text: the send attempts it makes
post_text(text, channel, tbl, failing, channelFails) ==
    LET chat   == target_chat_id_fallback(channel)
        fanout == SendEach(get_subscribed_users(tbl), text, None, failing)
    IN  IF Truthy(chat)
        THEN IF ~channelFails
             THEN << Msg("send_message", "channel", chat, text, None, TRUE) >>
             ELSE << Msg("send_message", "channel", chat, text, None, FALSE) >>
                  \o fanout
        ELSE fanout

\* a variant that counts the attempts
NumOkAttempts(box) == Len(box)

\* the messages of outbox that were delivered to members by send_message
NumOk(box) == Cardinality({i \in 1..Len(box) : box[i].via = "send_message" /\ box[i].ok})

(* ------------------------------ handlers ------------------------------ *)
\* callback_data of the two inline buttons (lines 234-235)
CallbackData(action, story_id) == [action |-> action, sid |-> ToString(story_id)]

\* text of the notification to an administrator (line 242)
Notice(story_id, content) ==
    << "New story #", ToString(story_id), ":", "" >> \o content

InlineKeyboardMarkup(story_id) ==
    << CallbackData("approve", story_id), CallbackData("reject", story_id) >>

\* callback data any client can send that matches the pattern of the
\* CallbackQueryHandler (line 403)
CallbackInputs ==
    [action : {"approve", "reject"},
     sid    : {ToString(i) : i \in 1..(MaxStories + 1)} \cup {"x"}]

\* what is recorded of an update: its kind, its sender, its text or data,
\* the sender's conversation state when /start arrived, and whether a
\* callback repeats the data of the update handled just before it
Update(kind, user, arg) ==
    [kind |-> kind, user |-> user, arg |-> arg, state |-> None, again |-> FALSE]

\* a variant that leaves a member who is writing a story in STORY
StartKeepsStory(u, p) ==
    /\ users' = upsert_user(users, u, p.username, p.first_name)
    /\ outbox' = << reply_text(u, WELCOME, MAIN_KB) >>
    /\ conv' = [conv EXCEPT ![u] = IF @ = STORY THEN STORY ELSE MENU]
    /\ last' = [Update("start", u, p) EXCEPT !.state = conv[u]]
    /\ raised' = FALSE
    /\ UNCHANGED <<ADMIN_IDS, CHANNEL_ID, posts_txt, POSTS, stories>>

\* a variant registered as entry point only, not as fallback
StartEntryOnly(u, p) ==
    /\ conv[u] = None
    /\ users' = upsert_user(users, u, p.username, p.first_name)
    /\ outbox' = << reply_text(u, WELCOME, MAIN_KB) >>
    /\ conv' = [conv EXCEPT ![u] = MENU]
    /\ last' = [Update("start", u, p) EXCEPT !.state = conv[u]]
    /\ raised' = FALSE
    /\ UNCHANGED <<ADMIN_IDS, CHANNEL_ID, posts_txt, POSTS, stories>>

\* start (lines 201-205); ConversationHandler takes /start as entry point
\* when the member has no conversation and as fallback in MENU and STORY
Start(u, p) ==
    /\ users' = upsert_user(users, u, p.username, p.first_name)
    /\ outbox' = << reply_text(u, WELCOME, MAIN_KB) >>
    /\ conv' = [conv EXCEPT ![u] = MENU]
    /\ last' = [Update("start", u, p) EXCEPT !.state = conv[u]]
    /\ raised' = FALSE
    /\ UNCHANGED <<ADMIN_IDS, CHANNEL_ID, posts_txt, POSTS, stories>>

\* menu_router (lines 207-224)
MenuRouter(u, t) ==
    /\ conv[u] = MENU
    /\ LET text == Strip(t) IN
        IF text = BTN_SHARE
        THEN /\ outbox' = << reply_text(u, <<"Write your story">>, ReplyKeyboardRemove) >>
             /\ conv' = [conv EXCEPT ![u] = STORY]
             /\ users' = users
        ELSE IF text = BTN_RULES
        THEN /\ outbox' = << reply_text(u, RULES, MAIN_KB) >>
             /\ conv' = [conv EXCEPT ![u] = MENU]
             /\ users' = users
        ELSE IF text = BTN_UNSUB
        THEN /\ users' = set_subscribed(users, u, 0)
             /\ outbox' = << reply_text(u, <<"You unsubscribed. To return: /start">>, MAIN_KB) >>
             /\ conv' = [conv EXCEPT ![u] = MENU]
        ELSE /\ outbox' = << reply_text(u, <<"Choose an action on the keyboard">>, MAIN_KB) >>
             /\ conv' = [conv EXCEPT ![u] = MENU]
             /\ users' = users
    /\ last' = Update("text", u, t)
    /\ raised' = FALSE
    /\ UNCHANGED <<ADMIN_IDS, CHANNEL_ID, posts_txt, POSTS, stories>>

\* a variant whose notification loop has no try/except: the first failed
\* send raises out of the handler, which then returns no state
ReceiveStoryUnguarded(u, t, failing) ==
    /\ conv[u] = STORY
    /\ Len(stories) < MaxStories
    /\ LET user_id  == u
           content  == t
           tbl      == add_story(stories, user_id, content)
           story_id == lastrowid(tbl)
           failed   == \E i \in DOMAIN ADMIN_IDS : ADMIN_IDS[i] \in failing
       IN  /\ stories' = tbl
           /\ outbox' = << reply_text(u, <<"Thank you. Sent to moderation">>, MAIN_KB) >>
                  \o SendEachUntilFailure(ADMIN_IDS, Notice(story_id, content),
                                          InlineKeyboardMarkup(story_id), failing)
           /\ conv' = IF failed THEN conv ELSE [conv EXCEPT ![u] = MENU]
           /\ raised' = failed
    /\ last' = Update("text", u, t)
    /\ UNCHANGED <<ADMIN_IDS, CHANNEL_ID, posts_txt, POSTS, users>>

\* receive_story (lines 226-247); failing: the chats send_message raises for
ReceiveStory(u, t, failing) ==
    /\ conv[u] = STORY
    /\ Len(stories) < MaxStories
    /\ LET user_id  == u
           content  == t
           tbl      == add_story(stories, user_id, content)
           story_id == lastrowid(tbl)
       IN  /\ stories' = tbl
           /\ outbox' = << reply_text(u, <<"Thank you. Sent to moderation">>, MAIN_KB) >>
                  \o (IF ADMIN_IDS # <<>>
                      THEN SendEach(ADMIN_IDS, Notice(story_id, content),
                                    InlineKeyboardMarkup(story_id), failing)
                      ELSE <<>>)
    /\ conv' = [conv EXCEPT ![u] = MENU]
    /\ last' = Update("text", u, t)
    /\ raised' = FALSE
    /\ UNCHANGED <<ADMIN_IDS, CHANNEL_ID, posts_txt, POSTS, users>>

\* a text message of a member without conversation: no handler of line
\* 394-404 matches it and the update is dropped
Dropped(u, t) ==
    /\ conv[u] = None
    /\ outbox' = <<>>
    /\ last' = Update("dropped", u, t)
    /\ raised' = FALSE
    /\ UNCHANGED <<ADMIN_IDS, CHANNEL_ID, posts_txt, POSTS, users, stories, conv>>

\* approve_reject (lines 249-259); any member u can send the callback
ApproveReject(u, data) ==
    LET action   == data.action
        story_id == ParseInt(data.sid)
        answer   == Msg("answer", "member", u, <<>>, None, TRUE)
    IN  /\ IF ~IsDecimal(data.sid)
           THEN /\ outbox' = << answer >>
                /\ raised' = TRUE
                /\ stories' = stories
           ELSE IF action = "approve"
           THEN /\ stories' = set_story_status(stories, story_id, "approved")
                /\ outbox' = << answer,
                      Msg("edit_message_text", "member", u,
                          << "Story #", ToString(story_id), " approved" >>, None, TRUE) >>
                /\ raised' = FALSE
           ELSE IF action = "reject"
           THEN /\ stories' = set_story_status(stories, story_id, "rejected")
                /\ outbox' = << answer,
                      Msg("edit_message_text", "member", u,
                          << "Story #", ToString(story_id), " rejected" >>, None, TRUE) >>
                /\ raised' = FALSE
           ELSE /\ outbox' = << answer >>
                /\ raised' = FALSE
                /\ stories' = stories
        /\ last' = [Update("callback", u, data) EXCEPT
                        !.again = (last.kind = "callback" /\ last.arg = data)]
        /\ UNCHANGED <<ADMIN_IDS, CHANNEL_ID, posts_txt, POSTS, users, conv>>

\* a variant that hands the text to post_text
BroadcastViaPostText(u, t, failing) ==
    /\ IF ~InList(u, ADMIN_IDS)
       THEN outbox' = <<>>
       ELSE LET msg == Strip(PartitionTail(t)) IN
            IF msg = <<>>
            THEN outbox' = << reply_text(u, <<"Usage: /broadcast <text>">>, None) >>
            ELSE \E cf \in BOOLEAN :
                 LET sent == post_text(msg, CHANNEL_ID, users, failing, cf)
                     ok   == NumOk(sent)
                 IN  outbox' = sent \o
                        << reply_text(u, << "Broadcast sent to ", ToString(ok) >>, None) >>
    /\ last' = Update("broadcast", u, t)
    /\ raised' = FALSE
    /\ UNCHANGED <<ADMIN_IDS, CHANNEL_ID, posts_txt, POSTS, users, stories, conv>>

\* broadcast (lines 261-276)
Broadcast(u, t, failing) ==
    /\ IF ~InList(u, ADMIN_IDS)
       THEN outbox' = <<>>
       ELSE LET msg == Strip(PartitionTail(t)) IN
            IF msg = <<>>
            THEN outbox' = << reply_text(u, <<"Usage: /broadcast <text>">>, None) >>
            ELSE LET sent == SendEach(get_subscribed_users(users), msg, None, failing)
                     ok   == NumOk(sent)
                 IN  outbox' = sent \o
                        << reply_text(u, << "Broadcast sent to ", ToString(ok) >>, None) >>
    /\ last' = Update("broadcast", u, t)
    /\ raised' = FALSE
    /\ UNCHANGED <<ADMIN_IDS, CHANNEL_ID, posts_txt, POSTS, users, stories, conv>>

\* job_morning / job_day / job_evening (lines 183-193)
Job(k, day, failing, channelFails) ==
    /\ LET idx == day % Len(POSTS[k])
       IN  outbox' = post_text(POSTS[k][idx + 1], CHANNEL_ID, users, failing, channelFails)
    /\ last' = Update("job", 0, k)
    /\ raised' = FALSE
    /\ UNCHANGED <<ADMIN_IDS, CHANNEL_ID, posts_txt, POSTS, users, stories, conv>>

(* ------------------------------- updates ----------------------------- *)
\* the updates the dispatcher hands to the handlers registered in main
\* (lines 394-409)
OnStart(profiles) == \E u \in UserIds, p \in profiles : Start(u, p)

OnMenuText(texts) == \E u \in UserIds, t \in texts : MenuRouter(u, t)

OnStoryText(texts) == \E u \in UserIds, t \in texts, f \in FailSets : ReceiveStory(u, t, f)

OnDroppedText(texts) == \E u \in UserIds, t \in texts : Dropped(u, t)

OnCallback == \E u \in UserIds, d \in CallbackInputs : ApproveReject(u, d)

OnBroadcast == \E u \in UserIds, t \in BroadcastTexts, f \in FailSets : Broadcast(u, t, f)

JobMorning(days) == \E d \in days, f \in FailSets, cf \in BOOLEAN : Job("morning", d, f, cf)

JobDay(days) == \E d \in days, f \in FailSets, cf \in BOOLEAN : Job("day", d, f, cf)

JobEvening(days) == \E d \in days, f \in FailSets, cf \in BOOLEAN : Job("evening", d, f, cf)

(* --------------------------- specification ---------------------------- *)
\* main (lines 380-417): configuration read, posts loaded, no conversation.
\* The tables are those of a first run: init_db has just created them.
InitWith(adminLists, channelIds, files) ==
    /\ ADMIN_IDS \in adminLists
    /\ CHANNEL_ID \in channelIds
    /\ posts_txt \in files
    /\ POSTS = load_posts(posts_txt)
    /\ users = << >>
    /\ stories = << >>
    /\ conv = [u \in UserIds |-> None]
    /\ last = Update("init", 0, None)
    /\ outbox = << >>
    /\ raised = FALSE

NoFile == [exists |-> FALSE, lines |-> <<>>]

Init == InitWith(AdminLists, ChannelIds, Files)

\* the whole bot
Next ==
    \/ OnStart(Profiles)
    \/ OnMenuText(Texts)
    \/ OnStoryText(Texts)
    \/ OnDroppedText(Texts)
    \/ OnCallback
    \/ OnBroadcast
    \/ JobMorning(DayIndexes)
    \/ JobDay(DayIndexes)
    \/ JobEvening(DayIndexes)

Spec == Init /\ [][Next]_vars

(***************************************************************************)
(* The state space of Spec is the product of what every handler records,  *)
(* so the properties are checked on three slices of it.  Each slice keeps  *)
(* every handler that writes a variable its properties read: broadcast and *)
(* the jobs write no table and no conversation state, approve_reject       *)
(* writes only stories[id].status.                                         *)
(***************************************************************************)
\* the conversation flow: /start, the menu, story intake
InitFlow == InitWith(AdminLists, {None}, {NoFile})

NextFlow ==
    \/ OnStart(OneProfile)
    \/ OnMenuText(Texts)
    \/ OnStoryText(Texts)
    \/ OnDroppedText(Texts)

SpecFlow == InitFlow /\ [][NextFlow]_vars

\* a story from intake through moderation
InitModeration == InitWith(ModerationAdminLists, ChannelIds, {NoFile})

NextModeration ==
    \/ OnStart(OneProfile)
    \/ OnMenuText(ModerationTexts)
    \/ OnStoryText(ModerationTexts)
    \/ OnCallback

SpecModeration == InitModeration /\ [][NextModeration]_vars

\* subscription, the /broadcast command and the scheduled jobs
InitBroadcast == InitWith(AdminLists, ChannelIds, Files)

NextBroadcast ==
    \/ OnStart(Profiles)
    \/ OnMenuText(Texts)
    \/ OnDroppedText(Texts)
    \/ OnBroadcast
    \/ JobMorning(JobDays)
    \/ JobDay(JobDays)
    \/ JobEvening(JobDays)

SpecBroadcast == InitBroadcast /\ [][NextBroadcast]_vars

\* the content loader and the jobs that pick from its pools; the channel
\* is configured, so every job makes a send attempt
InitPosts == InitWith({<<1>>}, {"@hudeihudei"}, PlanFiles)

PostsJobMorning == \E d \in DayIndexes, cf \in BOOLEAN : Job("morning", d, {}, cf)

PostsJobDay == \E d \in DayIndexes, cf \in BOOLEAN : Job("day", d, {}, cf)

PostsJobEvening == \E d \in DayIndexes, cf \in BOOLEAN : Job("evening", d, {}, cf)

NextPosts ==
    \/ PostsJobMorning
    \/ PostsJobDay
    \/ PostsJobEvening

SpecPosts == InitPosts /\ [][NextPosts]_vars

(* ------------------------------ properties ---------------------------- *)
\* the callback of an update that was parsed and names a stored story
NamesStory(data) == IsDecimal(data.sid) /\ ParseInt(data.sid) \in DOMAIN stories

\* the ids list-subscribed-ids returns, as a set
SubscribedIds(tbl) == {u \in DOMAIN tbl : tbl[u].subscribed = 1}

\* C1: a submission's status only ever goes from pending to approved or
\* from pending to rejected: an approved submission is never rejected
\* afterwards, a rejected one never approved, none goes back to pending.
C1_StatusOnlyLeavesPending ==
    [][\A i \in DOMAIN stories :
          stories[i].status # "pending" => stories'[i].status = stories[i].status]_vars

\* the step handles a callback query with approve_reject
CallbackStep ==
    last'.kind = "callback" /\ ApproveReject(last'.user, last'.arg)

\* C2: the same decision applied to the same submission id twice in a row
\* leaves the tables as the first application left them.
C2_SameDecisionTwiceIsNoOp ==
    [][(last.kind = "callback" /\ CallbackStep /\ last'.arg = last.arg)
          => (stories' = stories /\ users' = users)]_vars

\* C2 witness: approve was applied twice in a row to a stored story while
\* another story is stored
C2_Witness ==
    /\ last.kind = "callback"
    /\ last.again
    /\ last.arg.action = "approve"
    /\ NamesStory(last.arg)
    /\ stories[ParseInt(last.arg.sid)].status = "approved"
    /\ Len(stories) = 2
    /\ DOMAIN users # {}

\* C3: with a channel configured, handling approve for a stored submission
\* sends the channel a message whose text is the submission's body, and
\* handling reject sends the channel nothing.
C3_ApproveRepublishesBody ==
    [][(CallbackStep /\ Truthy(CHANNEL_ID) /\ NamesStory(last'.arg))
          => IF last'.arg.action = "approve"
             THEN \E i \in DOMAIN outbox' :
                     /\ outbox'[i].to = "channel"
                     /\ outbox'[i].text = stories[ParseInt(last'.arg.sid)].content
             ELSE \A i \in DOMAIN outbox' : outbox'[i].to # "channel"]_vars

\* the step handles a text with menu_router / a /start with start
MenuStep == last'.kind = "text" /\ MenuRouter(last'.user, last'.arg)

StartStep == last'.kind = "start" /\ Start(last'.user, last'.arg)

\* C4: after a member unsubscribes through the menu the member's id is not
\* among the subscribed ids, and after the member then sends /start it is
\* among them again.
C4_StartResubscribes ==
    [][/\ (MenuStep /\ last'.arg = BTN_UNSUB) => last'.user \notin SubscribedIds(users')
       /\ StartStep => last'.user \in SubscribedIds(users')]_vars

\* the send_message attempts of a handler, by destination
ChannelAttempts(box) == {i \in DOMAIN box : box[i].to = "channel"}

MemberAttempts(box) ==
    {i \in DOMAIN box : box[i].to = "member" /\ box[i].via = "send_message"}

\* every subscribed member is attempted exactly once, and nobody else
OncePerSubscriber(box, tbl) ==
    /\ \A u \in SubscribedIds(tbl) :
          Cardinality({i \in MemberAttempts(box) : box[i].chat_id = u}) = 1
    /\ \A i \in MemberAttempts(box) : box[i].chat_id \in SubscribedIds(tbl)

\* a step of job_morning, job_day or job_evening: only Job records a job
JobStep == last'.kind = "job"

\* C5 as stated: with a channel configured the dispatcher of the jobs makes
\* one send attempt, to the channel, and none to a member, whether or not
\* that attempt succeeds; with no channel it sends to the subscribed members.
C5_ChannelAttemptOnly ==
    [][JobStep =>
          IF Truthy(CHANNEL_ID)
          THEN Len(outbox') = 1 /\ ChannelAttempts(outbox') = {1}
          ELSE ChannelAttempts(outbox') = {} /\ OncePerSubscriber(outbox', users)]_vars

\* C5 amended: with a channel configured the dispatcher first makes one send
\* attempt to the channel; when that attempt succeeds it stops and sends to
\* no member, when it fails it goes on to send to every subscribed member
\* individually; with no channel it sends to the subscribed members.
C5_ChannelThenFallback ==
    [][JobStep =>
          IF Truthy(CHANNEL_ID)
          THEN /\ ChannelAttempts(outbox') = {1}
               /\ outbox'[1].chat_id = CHANNEL_ID
               /\ IF outbox'[1].ok
                  THEN Len(outbox') = 1
                  ELSE /\ OncePerSubscriber(outbox', users)
                       /\ Len(outbox') = 1 + Cardinality(SubscribedIds(users))
          ELSE /\ ChannelAttempts(outbox') = {}
               /\ OncePerSubscriber(outbox', users)
               /\ Len(outbox') = Cardinality(SubscribedIds(users))]_vars

\* C5 witness: a job whose channel attempt failed went on to a subscriber
C5_Witness ==
    /\ last.kind = "job"
    /\ Truthy(CHANNEL_ID)
    /\ Len(outbox) = 2
    /\ ~outbox[1].ok
    /\ outbox[2].to = "member"

\* C6: an administrator's /broadcast with a non-empty text, to N subscribed
\* members of which K sends fail, does not raise and reports N - K.
C6_BroadcastReportsDelivered ==
    [][\A f \in FailSets :
          ( /\ last'.kind = "broadcast"
            /\ \E i \in DOMAIN ADMIN_IDS : ADMIN_IDS[i] = last'.user
            /\ last'.arg = <<"/broadcast", " ", "hello">>
            /\ Broadcast(last'.user, last'.arg, f) )
          => LET N == Cardinality(SubscribedIds(users))
                 K == Cardinality(f \cap SubscribedIds(users))
             IN  /\ ~raised'
                 /\ Len(outbox') = N + 1
                 /\ outbox'[N + 1].via = "reply_text"
                 /\ outbox'[N + 1].text = << "Broadcast sent to ", ToString(N - K) >>]_vars

\* C6 witness: a broadcast to two subscribers of which one send failed
C6_Witness ==
    /\ last.kind = "broadcast"
    /\ Len(outbox) = 3
    /\ \E i, j \in 1..2 : outbox[i].ok /\ ~outbox[j].ok
    /\ outbox[3].text = << "Broadcast sent to ", "1" >>

\* C7: /broadcast from a user who is not in ADMIN_IDS sends no message to
\* anyone and changes no table and no conversation.
C7_NonAdminBroadcastDoesNothing ==
    [][\A f \in FailSets :
          ( /\ last'.kind = "broadcast"
            /\ \A i \in DOMAIN ADMIN_IDS : ADMIN_IDS[i] # last'.user
            /\ Broadcast(last'.user, last'.arg, f) )
          => /\ outbox' = <<>>
             /\ users' = users
             /\ stories' = stories
             /\ conv' = conv]_vars

\* C7 witness: a non-administrator sent /broadcast hello while a member
\* was subscribed
C7_Witness ==
    /\ last.kind = "broadcast"
    /\ \A i \in DOMAIN ADMIN_IDS : ADMIN_IDS[i] # last.user
    /\ last.arg = <<"/broadcast", " ", "hello">>
    /\ SubscribedIds(users) # {}
    /\ outbox = <<>>

\* the text is the Share label, possibly between whitespace
IsShareLabel(t) ==
    \E i \in 1..Len(t) :
        /\ <<t[i]>> = BTN_SHARE
        /\ \A j \in (1..Len(t)) \ {i} : t[j] = " "

\* C8 as stated: in MENU the text of the Share button moves the member to
\* AWAITING_STORY and every other text leaves the member in MENU.
C8_OnlyShareTextLeavesMenu ==
    [][MenuStep =>
          conv'[last'.user] = (IF last'.arg = BTN_SHARE THEN STORY ELSE MENU)]_vars

\* C8 amended: the states are MENU and AWAITING_STORY (or no conversation
\* yet); in MENU a text that is the Share label once surrounding whitespace
\* is trimmed moves the member to AWAITING_STORY, and the Rules label, the
\* Unsubscribe label and every other text leave the member in MENU.
C8_MenuTransitions ==
    /\ [](\A u \in UserIds : conv[u] \in {None, MENU, STORY})
    /\ [][MenuStep =>
            /\ conv'[last'.user] = (IF IsShareLabel(last'.arg) THEN STORY ELSE MENU)
            /\ \A v \in UserIds \ {last'.user} : conv'[v] = conv[v]]_vars

\* C8 witness: the Share label with a leading blank took a member from MENU
\* to AWAITING_STORY
C8_Witness ==
    /\ last.kind = "text"
    /\ last.arg = <<" ">> \o BTN_SHARE
    /\ conv[last.user] = STORY

\* C9: in AWAITING_STORY a text creates exactly one submission, owned by the
\* sender, with the text as body and status pending, and the sender is then
\* in MENU; also for a text that is a button label.
C9_StoryTextBecomesPendingSubmission ==
    [][(last'.kind = "text" /\ conv[last'.user] = STORY)
          =>  /\ \E f \in FailSets : ReceiveStory(last'.user, last'.arg, f)
              /\ Len(stories') = Len(stories) + 1
              /\ \A i \in DOMAIN stories : stories'[i] = stories[i]
              /\ stories'[Len(stories')] =
                     [user_id |-> last'.user, content |-> last'.arg, status |-> "pending"]
              /\ conv'[last'.user] = MENU]_vars

\* C9 witness: a button label sent in AWAITING_STORY was stored as a story
C9_Witness ==
    /\ last.kind = "text"
    /\ last.arg = BTN_UNSUB
    /\ stories # <<>>
    /\ stories[Len(stories)] =
           [user_id |-> last.user, content |-> BTN_UNSUB, status |-> "pending"]
    /\ conv[last.user] = MENU
    /\ users[last.user].subscribed = 1

\* C10: /start is accepted with no conversation, in MENU and in
\* AWAITING_STORY; after it the member is in MENU and has a member record.
C10_StartAlwaysReachesMenu ==
    /\ [](\A u \in UserIds, p \in Profiles : ENABLED Start(u, p))
    /\ [][StartStep =>
            (conv'[last'.user] = MENU /\ last'.user \in DOMAIN users')]_vars

\* C10 witness: /start arrived in AWAITING_STORY
C10_Witness ==
    /\ last.kind = "start"
    /\ last.state = STORY
    /\ conv[last.user] = MENU
    /\ last.user \in DOMAIN users

\* C11: after load_posts, on a missing file, a file without blocks or a file
\* with blocks for some tags only, every pool is non-empty, for every day
\* index 0..30 the index  day mod len(pool)  lies within the pool, and what
\* a job sends is an entry of its pool.
C11_PoolsNeverEmpty ==
    /\ \A k \in PoolKeys :
          /\ Len(POSTS[k]) >= 1
          /\ \A d \in DayIndexes : (d % Len(POSTS[k])) + 1 \in DOMAIN POSTS[k]
    /\ last.kind = "job" =>
          /\ outbox # <<>>
          /\ \E i \in DOMAIN POSTS[last.arg] : outbox[1].text = POSTS[last.arg][i]

\* C11 witness: the file has a morning block only and the evening job sent
\* the placeholder
C11_Witness ==
    /\ posts_txt.exists
    /\ posts_txt.lines = << "# Day 1 Morning", "a", "" >>
    /\ POSTS["morning"] = << <<"a">> >>
    /\ last.kind = "job"
    /\ last.arg = "evening"
    /\ outbox[1].text = << "Evening", " post placeholder." >>

\* the header lines of a file that carry tag k and are followed by a body
\* with a line that is not blank, in file order
NextHeader(lines, i) ==
    LET later == {j \in (i + 1)..Len(lines) : HeaderTag(lines[j]) # None}
    IN  IF later = {} THEN Len(lines) + 1
        ELSE CHOOSE j \in later : \A j2 \in later : j <= j2

BodyLines(lines, i) ==
    {j \in (i + 1)..(NextHeader(lines, i) - 1) : lines[j] # "" /\ lines[j] # " "}

TaggedBlocks(lines, k) ==
    {i \in DOMAIN lines :
        /\ HeaderTag(lines[i]) # None
        /\ Lower(HeaderTag(lines[i])) = k
        /\ BodyLines(lines, i) # {}}

\* the body after header line i, from its first to its last non-blank line
BodyText(lines, i) ==
    LET B  == BodyLines(lines, i)
        lo == CHOOSE j \in B : \A j2 \in B : j <= j2
        hi == CHOOSE j \in B : \A j2 \in B : j >= j2
    IN  SubSeq(lines, lo, hi)

\* the non-empty bodies tagged k, in file order, repeats included
TaggedBodies(lines, k) ==
    LET order == SortedSeq(TaggedBlocks(lines, k))
    IN  [n \in DOMAIN order |-> BodyText(lines, order[n])]

\* C20: the pool of each tag is the sequence of the non-empty bodies that
\* carry the tag, in file order, blocks repeating a day and tag all kept;
\* a pool is the single placeholder only when that sequence is empty.
C20_PoolsAreTaggedBodiesInOrder ==
    posts_txt.exists =>
        \A k \in PoolKeys :
            LET bodies == TaggedBodies(posts_txt.lines, k)
            IN  IF bodies = <<>>
                THEN POSTS[k] = << << Title(k), " post placeholder." >> >>
                ELSE POSTS[k] = bodies

\* C20 witness: two blocks for the same day and tag with the same body,
\* both in the pool, and a job has picked from it
C20_Witness ==
    /\ posts_txt.exists
    /\ posts_txt.lines = << "# Day 1 Morning", "a", "", "# Day 1 Morning", "a", "" >>
    /\ POSTS["morning"] = << <<"a">>, <<"a">> >>
    /\ last.kind = "job"


\* the step handles /broadcast hello sent by an administrator
AdminBroadcastStep ==
    /\ last'.kind = "broadcast"
    /\ \E i \in DOMAIN ADMIN_IDS : ADMIN_IDS[i] = last'.user
    /\ last'.arg = <<"/broadcast", " ", "hello">>

\* C12: in a fan-out to the members (a job with no channel configured, or an
\* administrator's /broadcast), whichever recipients fail, every subscribed
\* id gets exactly one send attempt, nobody else gets one, and the handler
\* ends without raising.
C12_FailedSendNeverAbortsFanOut ==
    [][((JobStep /\ ~Truthy(CHANNEL_ID)) \/ AdminBroadcastStep)
          => /\ OncePerSubscriber(outbox', users)
             /\ Cardinality(MemberAttempts(outbox')) = Cardinality(SubscribedIds(users))
             /\ ~raised']_vars

\* C12 witness: a job without channel whose first send failed went on to
\* the second subscriber
C12_Witness ==
    /\ last.kind = "job"
    /\ ~Truthy(CHANNEL_ID)
    /\ Len(outbox) = 2
    /\ ~outbox[1].ok
    /\ outbox[2].ok
    /\ outbox[1].chat_id # outbox[2].chat_id

\* the send_message attempts of a handler, in order
SendAttempts(box) == SelectSeq(box, LAMBDA m : m.via = "send_message")

\* two sequences of send attempts go to the same recipients in turn
SameRecipients(box, ref) ==
    /\ Len(box) = Len(ref)
    /\ \A i \in DOMAIN box : box[i].to = ref[i].to /\ box[i].chat_id = ref[i].chat_id

\* C14 as stated: an administrator's /broadcast sends to the recipients
\* post_text sends the same text to: the channel when one is configured.
C14_BroadcastUsesDispatchRule ==
    [][AdminBroadcastStep =>
          \E f \in FailSets, cf \in BOOLEAN :
              SameRecipients(SendAttempts(outbox'),
                             post_text(<<"hello">>, CHANNEL_ID, users, f, cf))]_vars

\* C14 amended: an administrator's /broadcast always sends to every
\* subscribed member individually and never to the channel, whether or not
\* a channel is configured; its recipients are those of post_text for the
\* same text when no channel is configured.
C14_BroadcastAlwaysToMembers ==
    [][AdminBroadcastStep =>
          /\ ChannelAttempts(outbox') = {}
          /\ OncePerSubscriber(outbox', users)
          /\ ~Truthy(CHANNEL_ID) =>
                \E f \in FailSets :
                    SameRecipients(SendAttempts(outbox'),
                                   post_text(<<"hello">>, CHANNEL_ID, users, f, FALSE))]_vars

\* C14 witness: with a channel configured an administrator's /broadcast
\* went to two subscribed members
C14_Witness ==
    /\ last.kind = "broadcast"
    /\ Truthy(CHANNEL_ID)
    /\ \E i \in DOMAIN ADMIN_IDS : ADMIN_IDS[i] = last.user
    /\ Len(outbox) = 3
    /\ outbox[1].to = "member" /\ outbox[1].via = "send_message"
    /\ outbox[2].to = "member" /\ outbox[2].via = "send_message"


C17_ModerationTouchesOneStatus ==
    [][CallbackStep =>
          /\ DOMAIN stories' = DOMAIN stories
          /\ \A j \in DOMAIN stories :
                /\ stories'[j].user_id = stories[j].user_id
                /\ stories'[j].content = stories[j].content
                /\ ~(IsDecimal(last'.arg.sid) /\ ParseInt(last'.arg.sid) = j)
                      => stories'[j].status = stories[j].status
          /\ ~NamesStory(last'.arg) => stories' = stories
          /\ NamesStory(last'.arg) =>
                stories'[ParseInt(last'.arg.sid)].status =
                    (IF last'.arg.action = "approve" THEN "approved" ELSE "rejected")
          /\ users' = users
          /\ conv' = conv]_vars

\* C17 witness: a member who is no administrator approved one of two stored
\* submissions and the other is still pending
C17_Witness ==
    /\ last.kind = "callback"
    /\ \A i \in DOMAIN ADMIN_IDS : ADMIN_IDS[i] # last.user
    /\ last.arg.action = "approve"
    /\ NamesStory(last.arg)
    /\ Len(stories) = 2
    /\ stories[ParseInt(last.arg.sid)].status = "approved"
    /\ \E j \in DOMAIN stories : stories[j].status = "pending"


\* the step handles a text of a member who is in STORY
StoryStep == last'.kind = "text" /\ conv[last'.user] = STORY

C16_UnsubscribeTouchesOneFlag ==
    [][(last'.kind = "text" /\ conv[last'.user] = MENU /\ last'.arg = BTN_UNSUB)
          => /\ DOMAIN users' = DOMAIN users
             /\ users'[last'.user].subscribed = 0
             /\ users'[last'.user].username = users[last'.user].username
             /\ users'[last'.user].first_name = users[last'.user].first_name
             /\ \A v \in DOMAIN users \ {last'.user} : users'[v] = users[v]
             /\ stories' = stories
             /\ conv' = conv
             /\ conv'[last'.user] = MENU]_vars

\* C16 witness: a member unsubscribed while another member was subscribed
\* and a submission was stored
C16_Witness ==
    /\ last.kind = "text"
    /\ last.arg = BTN_UNSUB
    /\ conv[last.user] = MENU
    /\ users[last.user].subscribed = 0
    /\ \E v \in DOMAIN users : v # last.user /\ users[v].subscribed = 1
    /\ stories # <<>>
    /\ stories[Len(stories)].content # BTN_UNSUB

\* C18: /start sent in AWAITING_STORY stores no submission, notifies no
\* administrator and puts the member in MENU; the member's next text is
\* handled by the menu router and stores no submission.
C18_StartAbandonsStory ==
    [][/\ (last'.kind = "start" /\ conv[last'.user] = STORY)
            => /\ stories' = stories
               /\ SendAttempts(outbox') = <<>>
               /\ conv'[last'.user] = MENU
       /\ (/\ last.kind = "start" /\ last.state = STORY
           /\ last'.kind = "text" /\ last'.user = last.user)
            => /\ MenuRouter(last'.user, last'.arg)
               /\ stories' = stories]_vars

\* C18 witness: with an administrator configured, /start arrived in
\* AWAITING_STORY and no submission is stored
C18_Witness ==
    /\ last.kind = "start"
    /\ last.state = STORY
    /\ ADMIN_IDS # <<>>
    /\ stories = <<>>
    /\ outbox # <<>>
    /\ conv[last.user] = MENU

\* C19: every member who is in MENU or in AWAITING_STORY has a member
\* record, and the owner of every submission has one.
C19_ConversationImpliesMember ==
    /\ \A u \in UserIds : conv[u] # None => u \in DOMAIN users
    /\ \A i \in DOMAIN stories : stories[i].user_id \in DOMAIN users

\* C19 witness: one member is writing a story, a submission is stored and
\* another member has no conversation
C19_Witness ==
    /\ \E u \in UserIds : conv[u] = STORY /\ u \in DOMAIN users
    /\ \E v \in UserIds : conv[v] = None
    /\ stories # <<>>

=============================================================================
